---------------------------- MODULE Spec2Model ----------------------------
(*************************************************************************)
(* A model of app.py: the Flask facade over yt-dlp with the handlers     *)
(* /health, /fetch_info and /download.                                   *)
(*                                                                       *)
(* Text is modelled as a sequence: names and flag values are sequences   *)
(* of characters (one-character strings; a non-ASCII character is named  *)
(* by its code point, "U+2121"), URLs and format selectors are sequences *)
(* of tokens.  An optional value (None or a value) is None or Some(v).   *)
(*************************************************************************)
EXTENDS Integers, Sequences, FiniteSets, TLC

(*************************************************************************)
(* Bounds of the model.                                                  *)
(*************************************************************************)
\* number of requests that may be handled concurrently
NReq == 2
\* number of directory names tempfile.mkdtemp can draw from
NDirs == 2
\* long names run from one character below the cap to MaxOver above it
MaxOver == 1

(*************************************************************************)
(* Optional values and Python truthiness.                                *)
(*************************************************************************)
None == <<>>
Some(v) == <<v>>

\* "x or y" / "not x" on an optional text: None and "" are falsy.
Truthy(o) == o # None /\ Len(o[1]) > 0

\* "x or y" on two optional texts
OrElse(a, b) == IF Truthy(a) THEN a ELSE b

(*************************************************************************)
(* Characters.                                                           *)
(*************************************************************************)
LowerLetters ==
  << "a","b","c","d","e","f","g","h","i","j","k","l","m",
     "n","o","p","q","r","s","t","u","v","w","x","y","z" >>

UpperLetters ==
  << "A","B","C","D","E","F","G","H","I","J","K","L","M",
     "N","O","P","Q","R","S","T","U","V","W","X","Y","Z" >>

Digits == {"0","1","2","3","4","5","6","7","8","9"}

Range(f) == {f[i] : i \in DOMAIN f}

\* str.lower() on one character
LowerChar(c) ==
  IF \E i \in 1..26 : UpperLetters[i] = c
  THEN LowerLetters[CHOOSE i \in 1..26 : UpperLetters[i] = c]
  ELSE c

\* str.upper() on one character
UpperChar(c) ==
  IF \E i \in 1..26 : LowerLetters[i] = c
  THEN UpperLetters[CHOOSE i \in 1..26 : LowerLetters[i] = c]
  ELSE c

Lower(s) == [i \in 1..Len(s) |-> LowerChar(s[i])]
Upper(s) == [i \in 1..Len(s) |-> UpperChar(s[i])]

\* the characters str.strip() and str.split() treat as whitespace
Whitespace == {" ", "\t"}

\* the character class of clean_filename's regular expression
UnsafeChars == {"\\", "/", "*", "?", ":", "\"", "<", ">", "|"}

\* the characters _filename_ascii_strip_re keeps: [A-Za-z0-9_.-]
AsciiSafe == Range(LowerLetters) \cup Range(UpperLetters) \cup Digits \cup {"_", ".", "-"}

\* unicodedata.normalize("NFKD", c).encode("ascii", "ignore") of one character:
\* U+2121 TELEPHONE SIGN -> "TEL", U+00E9 -> "e" + combining accent (dropped),
\* U+FF0F FULLWIDTH SOLIDUS -> "/", U+65E5 (CJK) -> dropped; ASCII is kept.
NfkdAscii(c) ==
  CASE c = "U+2121" -> <<"T", "E", "L">>
    [] c = "U+00E9" -> <<"e">>
    [] c = "U+FF0F" -> <<"/">>
    [] c = "U+65E5" -> <<>>
    [] OTHER -> <<c>>

(*************************************************************************)
(* Operations on text.                                                   *)
(*************************************************************************)
MinOf(S) == CHOOSE i \in S : \A j \in S : i <= j

Repeat(c, n) == [i \in 1..n |-> c]

EndsWith(s, suffix) ==
  /\ Len(s) >= Len(suffix)
  /\ SubSeq(s, Len(s) - Len(suffix) + 1, Len(s)) = suffix

\* re.sub(class, "", s)
RemoveChars(s, class) == SelectSeq(s, LAMBDA c : c \notin class)

\* s.strip(class)
Strip(s, class) ==
  LET idx == {i \in 1..Len(s) : s[i] \notin class}
      n   == Len(s)
  IN IF idx = {} THEN <<>>
     ELSE SubSeq(s, MinOf(idx), n + 1 - MinOf({n + 1 - i : i \in idx}))

\* s[:n]
Truncate(s, n) == IF Len(s) <= n THEN s ELSE SubSeq(s, 1, n)

\* s.replace(c, d) for single characters
ReplaceChars(s, class, d) == [i \in 1..Len(s) |-> IF s[i] \in class THEN d ELSE s[i]]

\* d.join(s.split()): leading and trailing whitespace goes, every inner run
\* of whitespace becomes one d
JoinSplit(s, d) ==
  LET t    == Strip(s, Whitespace)
      keep == SelectSeq([i \in 1..Len(t) |-> i],
                        LAMBDA i : t[i] \notin Whitespace \/ t[i - 1] \notin Whitespace)
  IN [k \in 1..Len(keep) |-> IF t[keep[k]] \in Whitespace THEN d ELSE t[keep[k]]]

\* s.split(".")[0]
BeforeFirstDot(s) ==
  LET dots == {i \in 1..Len(s) : s[i] = "."}
  IN IF dots = {} THEN s ELSE SubSeq(s, 1, MinOf(dots) - 1)

\* NFKD normalisation followed by the ASCII encoding that ignores the rest:
\* every character gives at most three ASCII characters, laid out in three
\* slots of which the empty ones ("") are then dropped
Normalize(s) ==
  LET slot(j) == LET c == NfkdAscii(s[((j - 1) \div 3) + 1])
                     k == ((j - 1) % 3) + 1
                 IN IF k <= Len(c) THEN c[k] ELSE ""
  IN SelectSeq([j \in 1..(3 * Len(s)) |-> slot(j)], LAMBDA c : c # "")

(*************************************************************************)
(* app.py, module level.                                                 *)
(*************************************************************************)
\* DESIRED_HEIGHTS = [1080, 720, 480, 360, 240, 144]
DESIRED_HEIGHTS == <<1080, 720, 480, 360, 240, 144>>

\* the length clean_filename cuts a name to
NameCap == 200

\* clean_filename(s): drop the unsafe characters, strip, cut to 200
clean_filename(s) == Truncate(Strip(RemoveChars(s, UnsafeChars), Whitespace), NameCap)

\* werkzeug's _windows_device_files
WindowsDeviceFiles ==
  { <<"C","O","N">>, <<"P","R","N">>, <<"A","U","X">>, <<"N","U","L">> }
  \cup { <<"C","O","M",d>> : d \in Digits } \cup { <<"L","P","T",d>> : d \in Digits }

\* os.sep and os.path.altsep of the host
PathSeparators(os) == IF os = "nt" THEN {"\\", "/"} ELSE {"/"}

\* werkzeug.utils.secure_filename(filename) on a host whose os.name is os
secure_filename(filename, os) ==
  LET ascii    == Normalize(filename)
      spaced   == ReplaceChars(ascii, PathSeparators(os), " ")
      joined   == JoinSplit(spaced, "_")
      stripped == Strip(SelectSeq(joined, LAMBDA c : c \in AsciiSafe), {".", "_"})
  IN IF /\ os = "nt"
        /\ stripped # <<>>
        /\ Upper(BeforeFirstDot(stripped)) \in WindowsDeviceFiles
     THEN <<"_">> \o stripped
     ELSE stripped

\* a selector that leaves the height out
Selector_NoHeight(h) == <<"bestvideo+bestaudio/best">>

\* f"bestvideo[height<={h}]+bestaudio/best[height<={h}]"
Selector(h) == <<"bestvideo[height<=", h, "]+bestaudio/best[height<=", h, "]">>

\* the audio sentinel
BestAudio == <<"bestaudio">>

\* the entry build_format_options appends for one height
VideoOption(h) == [id |-> Selector(h), label |-> <<h, "p">>, ext |-> "mp4", type |-> "video"]

\* the audio-only entry
AudioOption == [id |-> BestAudio, label |-> <<"MP3 (audio only)">>, ext |-> "mp3", type |-> "audio"]

RECURSIVE Dedup(_, _)
\* the loop of lines 55-61: keep the first entry of every id
Dedup(formats, seen) ==
  IF formats = <<>> THEN <<>>
  ELSE IF Head(formats).id \in seen THEN Dedup(Tail(formats), seen)
  ELSE <<Head(formats)>> \o Dedup(Tail(formats), seen \cup {Head(formats).id})

\* build_format_options(info): info is not read
build_format_options(info) ==
  Dedup([i \in 1..Len(DESIRED_HEIGHTS) |-> VideoOption(DESIRED_HEIGHTS[i])] \o <<AudioOption>>, {})

(*************************************************************************)
(* Requests and what the world answers for them.                         *)
(*************************************************************************)
Reqs == 1..NReq
DirNames == 1..NDirs

MyClip == <<"M","y"," ","C","l","i","p">>
ExampleUrl == <<"https://example.test/watch?v=abc">>

\* long names around the cap of clean_filename
LongLengths == (NameCap - 1)..(NameCap + MaxOver)

LongNames ==
  UNION { { Repeat("a", n), Repeat("U+2121", n), <<"C","O","N",".">> \o Repeat("a", n - 4) } :
            n \in LongLengths }

ShortNames ==
  { <<"a","b","c">>,
    <<" ","a","*"," ","\t","b",":","\t">>,
    <<"U+00E9","U+65E5","U+FF0F","x">>,
    <<"c","o","n">>,
    <<".",".","/",".",".","\\","e","t","c">>,
    <<"*","?">> }

\* values of the filename parameter
FilenameArgs == {None, Some(<<>>), Some(<<"a","b","c">>)}

\* values of the filename parameter in the runs that exercise the naming
NamingFilenameArgs == {None, Some(<<>>)} \cup {Some(n) : n \in ShortNames \cup LongNames}

\* titles the extraction engine reports
Titles == {None, Some(MyClip), Some(<<"U+65E5">>)}

\* values of the audio_only parameter
AudioOnlyArgs ==
  { None, Some(<<"1">>), Some(<<"T","r","u","e">>), Some(<<"Y","E","S">>), Some(<<"o","n">>) }

UrlArgs == {None, Some(<<>>), Some(ExampleUrl)}

FormatArgs == {None, Some(<<>>), Some(BestAudio), Some(Selector(720))}

Mp3 == <<"m","p","3">>
Mp4 == <<"m","p","4">>
Webm == <<"w","e","b","m">>

\* extensions yt-dlp's prepare_filename may predict
PredictedExts == {Webm, Mp4, <<"M","P","4">>}

\* what request.get_json(silent=True) returns: t is the JSON type ("none" when
\* there is no parsable body), truthy its Python truth value, url the value
\* under the key "url" of an object
JsonBodies ==
  { [t |-> "none",   truthy |-> FALSE, url |-> None],
    [t |-> "object", truthy |-> FALSE, url |-> None],
    [t |-> "object", truthy |-> TRUE,  url |-> None],
    [t |-> "object", truthy |-> TRUE,  url |-> Some(<<>>)],
    [t |-> "object", truthy |-> TRUE,  url |-> Some(ExampleUrl)],
    [t |-> "array",  truthy |-> FALSE, url |-> None],
    [t |-> "array",  truthy |-> TRUE,  url |-> None],
    [t |-> "scalar", truthy |-> FALSE, url |-> None],
    [t |-> "scalar", truthy |-> TRUE,  url |-> None] }

NoJson == [t |-> "none", truthy |-> FALSE, url |-> None]

\* a request: the endpoint, the query parameters, the JSON body, and what the
\* source behind the URL makes the engine report (title, predicted extension)
Request(endpoint, url, format_id, filename, audio_only, json, title, ext) ==
  [ endpoint |-> endpoint, url |-> url, format_id |-> format_id,
    filename |-> filename, audio_only |-> audio_only, json |-> json,
    title |-> title, ext |-> ext ]

NoRequest == Request("none", None, None, None, None, NoJson, None, Mp4)

HealthRequests == { Request("health", None, None, None, None, NoJson, None, Mp4) }

FetchInfoRequests ==
  { Request("fetch_info", u, None, None, None, j, t, Mp4) :
      u \in UrlArgs, j \in JsonBodies, t \in {None, Some(MyClip)} }

DownloadRequests ==
  { Request("download", q[1], q[2], q[3], q[4], NoJson, q[5], q[6]) :
      q \in UrlArgs \X FormatArgs \X FilenameArgs \X AudioOnlyArgs \X Titles \X PredictedExts }

AllRequests == HealthRequests \cup FetchInfoRequests \cup DownloadRequests

\* the requests of the runs that exercise the naming: valid downloads
NamingRequests ==
  { Request("download", Some(ExampleUrl), Some(q[1]), q[2], None, NoJson, q[3], Webm) :
      q \in {BestAudio, Selector(720)} \X NamingFilenameArgs \X Titles }

\* the requests of the concurrent runs: valid downloads of one source
ConcurrentRequests ==
  { Request("download", Some(ExampleUrl), Some(Selector(720)), None, None, NoJson,
            Some(MyClip), Webm) }

\* messages of the engine's exceptions
EngineMessages == {"unreachable", "'NoneType' object is not subscriptable"}

\* what a download run of the engine may leave in the scratch directory: the
\* converted file, the file as downloaded, a directory of fragments
ProductKinds == {"converted", "raw", "fragments"}

\* an outcome of ydl.extract_info(url, download=True): it raises with a message
\* or returns, having left some products behind
EngineOutcome(raises, message, products) ==
  [raises |-> raises, message |-> message, products |-> products]

EngineOutcomes ==
  { EngineOutcome(TRUE, m, p) : m \in EngineMessages, p \in SUBSET {"raw"} }
  \cup { EngineOutcome(FALSE, "", p) : p \in SUBSET ProductKinds }

\* the outcomes in the runs that exercise the naming
NamingOutcomes ==
  { EngineOutcome(TRUE, "unreachable", {}), EngineOutcome(FALSE, "", {"converted"}) }

\* the outcomes in the concurrent runs: the predicted file is there, or only
\* the file as downloaded
ConcurrentOutcomes ==
  { EngineOutcome(FALSE, "", {"converted"}), EngineOutcome(FALSE, "", {"raw"}) }

(*************************************************************************)
(* State.                                                                *)
(*************************************************************************)
VARIABLES
  os_name,        \* os.name of the host: "posix" or "nt"
  req,            \* req[r]: the request r handles
  pc,             \* pc[r]: where handler r stands
  resp,           \* resp[r]: the response handler r returned
  temp_dir,       \* temp_dir[r]: None or Some(name of r's scratch directory)
  disk,           \* disk[d]: None (no such directory) or Some(its entries)
  loc,            \* loc[r]: the locals of download()
  opened,         \* opened[r]: None or Some(the file send_file opened)
  sent,           \* sent[r]: the response body has been delivered
  engine_calls,   \* engine_calls[r]: how often r invoked the engine
  rmtree_calls,   \* rmtree_calls[r]: how often r called shutil.rmtree
  rmtree_failed   \* rmtree_failed[r]: that call raised (and was swallowed)

vars == << os_name, req, pc, resp, temp_dir, disk, loc, opened, sent,
           engine_calls, rmtree_calls, rmtree_failed >>

\* a response: status, kind of body, error message, attachment name, formats, title
Response(status, kind, error, download_name, formats, title) ==
  [ status |-> status, kind |-> kind, error |-> error,
    download_name |-> download_name, formats |-> formats, title |-> title ]

NoResponse == Response(0, "none", <<>>, <<>>, <<>>, None)

\* jsonify({"error": msg}), status
JsonError(status, msg) == Response(status, "json", msg, <<>>, <<>>, None)

\* what Flask answers when a view raises
InternalServerError == Response(500, "html", <<>>, <<>>, <<>>, None)

NoLocals ==
  [ want_mp3 |-> FALSE, output_ext |-> <<>>, format |-> None, info |-> None,
    predicted |-> None, filename |-> None, error |-> None ]

InitWith(requests) ==
  /\ os_name \in {"posix", "nt"}
  /\ req \in requests
  /\ pc = [r \in Reqs |-> IF req[r].endpoint = "none" THEN "absent" ELSE "start"]
  /\ resp = [r \in Reqs |-> NoResponse]
  /\ temp_dir = [r \in Reqs |-> None]
  /\ disk = [d \in DirNames |-> None]
  /\ loc = [r \in Reqs |-> NoLocals]
  /\ opened = [r \in Reqs |-> None]
  /\ sent = [r \in Reqs |-> FALSE]
  /\ engine_calls = [r \in Reqs |-> 0]
  /\ rmtree_calls = [r \in Reqs |-> 0]
  /\ rmtree_failed = [r \in Reqs |-> FALSE]

\* one request arrives
Init == InitWith({[r \in Reqs |-> IF r = 1 THEN q ELSE NoRequest] : q \in AllRequests})

\* one download arrives, of any name
InitNaming == InitWith({[r \in Reqs |-> IF r = 1 THEN q ELSE NoRequest] : q \in NamingRequests})

\* NReq downloads arrive together, on a POSIX host
InitConcurrent == InitWith([Reqs -> ConcurrentRequests]) /\ os_name = "posix"

(*************************************************************************)
(* The file system under the temporary root.                             *)
(*************************************************************************)
\* a path inside a scratch directory: os.path.join(dir, stem + "." + ext)
Path(dir, stem, ext) == [dir |-> dir, stem |-> stem, ext |-> ext]

\* a directory entry: a regular file or a subdirectory, written by request owner
Entry(dir, stem, ext, kind, owner) ==
  [dir |-> dir, stem |-> stem, ext |-> ext, kind |-> kind, owner |-> owner]

PathOf(e) == Path(e.dir, e.stem, e.ext)

\* os.listdir(d), with full entries
Listdir(d) == IF disk[d] = None THEN {} ELSE disk[d][1]

\* os.path.exists(path)
Exists(path) == \E e \in Listdir(path.dir) : PathOf(e) = path

\* the entry at path
EntryAt(path) == CHOOSE e \in Listdir(path.dir) : PathOf(e) = path

\* a directory of any name, existing or not, as os.makedirs(exist_ok=True) gives
UnusedNames_AnyName == DirNames

\* tempfile.mkdtemp picks a name that does not exist yet
UnusedNames == {d \in DirNames : disk[d] = None}

\* the files send_file of any request still holds open
OpenFiles == {opened[r][1] : r \in {q \in Reqs : opened[q] # None /\ ~sent[q]}}

\* what shutil.rmtree(d) leaves behind when it raises: the directory, with
\* all its entries (the first removal failed) or with only those that cannot
\* be removed (a file that is held open on Windows cannot be unlinked)
RmtreeLeftovers(d) ==
  LET pinned == IF os_name = "nt" THEN Listdir(d) \cap OpenFiles ELSE {}
  IN {Listdir(d), pinned}

\* shutil.rmtree(d) can succeed
RmtreeCanSucceed(d) ==
  /\ disk[d] # None
  /\ os_name = "nt" => Listdir(d) \cap OpenFiles = {}

(*************************************************************************)
(* The pieces of download().                                             *)
(*************************************************************************)
\* line 118: request.args.get("audio_only", "").lower() in ("1", "true", "yes")
AudioOnlyFlag(arg) ==
  Lower(IF arg = None THEN <<>> ELSE arg[1])
    \in { <<"1">>, <<"t","r","u","e">>, <<"y","e","s">> }

\* line 120: not url or not format_id
MissingDownloadParams(q) == ~Truthy(q.url) \/ ~Truthy(q.format_id)

\* the rule of the docstring: audio_only set and format_id == "bestaudio"
WantMp3_Both(audio_only_flag, format_id) == audio_only_flag /\ format_id = BestAudio

\* line 140
WantMp3(audio_only_flag, format_id) == audio_only_flag \/ format_id = BestAudio

\* lines 141-161: output_ext
OutputExt(want_mp3) == IF want_mp3 THEN Mp3 ELSE Mp4

\* lines 141-161: ydl_opts["format"]
EngineFormat(want_mp3, format_id) == IF want_mp3 THEN BestAudio ELSE format_id

\* lines 171-176: the extension of the predicted path, corrected
CorrectExtension(path, want_mp3) ==
  IF want_mp3 THEN Path(path.dir, path.stem, Mp3)
  ELSE IF Lower(path.ext) # Mp4 THEN Path(path.dir, path.stem, Mp4)
  ELSE path

\* every entry of the scratch directory, without the os.path.isfile filter
FallbackFiles_NoFilter(d) == Listdir(d)

\* line 182: the regular files of the scratch directory
FallbackFiles(d) == {e \in Listdir(d) : e.kind = "file"}

\* the title before the suggested name
BaseName_TitleFirst(suggested_name, info) ==
  OrElse(info.title, OrElse(suggested_name, Some(<<"v","i","d","e","o">>)))[1]

\* line 189: suggested_name or info.get("title") or "video"
BaseName(suggested_name, info) ==
  OrElse(suggested_name, OrElse(info.title, Some(<<"v","i","d","e","o">>)))[1]

\* lines 189-191: download_name
DownloadName(suggested_name, info, output_ext) ==
  secure_filename(clean_filename(BaseName(suggested_name, info)), os_name)
    \o <<".">> \o output_ext

\* cleanup written after the body of the try block: an exception skips it
ExitTry_NotOnRaise(how) == IF how = "raise" THEN "returned" ELSE "finally"

\* cleanup written in an except clause: an early return skips it
ExitTry_NotOnReturn(how) == IF how = "return" THEN "returned" ELSE "finally"

\* lines 125 and 195: every way out of the try block passes the finally clause
ExitTry(how) == "finally"

(*************************************************************************)
(* GET /health                                                           *)
(*************************************************************************)
Health(r) ==
  /\ pc[r] = "start"
  /\ req[r].endpoint = "health"
  /\ resp' = [resp EXCEPT ![r] = Response(200, "json", <<>>, <<>>, <<>>, None)]
  /\ pc' = [pc EXCEPT ![r] = "returned"]
  /\ UNCHANGED << os_name, req, temp_dir, disk, loc, opened, sent,
                  engine_calls, rmtree_calls, rmtree_failed >>

(*************************************************************************)
(* POST /fetch_info                                                      *)
(*************************************************************************)
\* line 74: request.get_json(silent=True) or {}
JsonData(json) == IF json.truthy THEN json ELSE [t |-> "object", truthy |-> FALSE, url |-> None]

\* lines 74-77: a body that is no object has no .get (AttributeError)
FetchInfoValidate(r) ==
  /\ pc[r] = "start"
  /\ req[r].endpoint = "fetch_info"
  /\ LET data == JsonData(req[r].json)
     IN IF data.t # "object"
        THEN /\ resp' = [resp EXCEPT ![r] = InternalServerError]
             /\ pc' = [pc EXCEPT ![r] = "returned"]
        ELSE IF ~Truthy(OrElse(data.url, req[r].url))
        THEN /\ resp' = [resp EXCEPT ![r] = JsonError(400, <<"Missing 'url' parameter">>)]
             /\ pc' = [pc EXCEPT ![r] = "returned"]
        ELSE /\ pc' = [pc EXCEPT ![r] = "extract"]
             /\ UNCHANGED resp
  /\ UNCHANGED << os_name, req, temp_dir, disk, loc, opened, sent,
                  engine_calls, rmtree_calls, rmtree_failed >>

\* lines 79-90: ydl.extract_info(url, download=False) raises, or returns the
\* metadata, or returns nothing
FetchInfoExtract(r) ==
  /\ pc[r] = "extract"
  /\ engine_calls' = [engine_calls EXCEPT ![r] = @ + 1]
  /\ \/ \E m \in EngineMessages :
          /\ resp' = [resp EXCEPT ![r] = JsonError(500, <<"Failed to extract info: ", m>>)]
          /\ pc' = [pc EXCEPT ![r] = "returned"]
          /\ UNCHANGED loc
     \/ \E info \in {None, Some([title |-> req[r].title])} :
          /\ loc' = [loc EXCEPT ![r].info = info]
          /\ pc' = [pc EXCEPT ![r] = "build"]
          /\ UNCHANGED resp
  /\ UNCHANGED << os_name, req, temp_dir, disk, opened, sent, rmtree_calls, rmtree_failed >>

\* lines 92-103: info.get on nothing raises AttributeError
FetchInfoRespond(r) ==
  /\ pc[r] = "build"
  /\ LET formats == build_format_options(loc[r].info)
     IN resp' = [resp EXCEPT ![r] =
                   IF loc[r].info = None THEN InternalServerError
                   ELSE Response(200, "json", <<>>, <<>>, formats, loc[r].info[1].title)]
  /\ pc' = [pc EXCEPT ![r] = "returned"]
  /\ UNCHANGED << os_name, req, temp_dir, disk, loc, opened, sent,
                  engine_calls, rmtree_calls, rmtree_failed >>

(*************************************************************************)
(* GET /download                                                         *)
(*************************************************************************)
\* lines 115-121
DownloadValidate(r) ==
  /\ pc[r] = "start"
  /\ req[r].endpoint = "download"
  /\ IF MissingDownloadParams(req[r])
     THEN /\ resp' = [resp EXCEPT ![r] =
                        JsonError(400, <<"Missing 'url' or 'format_id' query parameters">>)]
          /\ pc' = [pc EXCEPT ![r] = "returned"]
     ELSE /\ pc' = [pc EXCEPT ![r] = "mkdtemp"]
          /\ UNCHANGED resp
  /\ UNCHANGED << os_name, req, temp_dir, disk, loc, opened, sent,
                  engine_calls, rmtree_calls, rmtree_failed >>

\* line 124: tempfile.mkdtemp(prefix="ydl_") creates a directory of a name
\* that did not exist, or raises (before the try block)
Mkdtemp(r) ==
  /\ pc[r] = "mkdtemp"
  /\ \/ \E d \in UnusedNames :
          /\ disk' = [disk EXCEPT ![d] = Some({})]
          /\ temp_dir' = [temp_dir EXCEPT ![r] = Some(d)]
          /\ pc' = [pc EXCEPT ![r] = "options"]
          /\ UNCHANGED resp
     \/ /\ resp' = [resp EXCEPT ![r] = InternalServerError]
        /\ pc' = [pc EXCEPT ![r] = "returned"]
        /\ UNCHANGED << disk, temp_dir >>
  /\ UNCHANGED << os_name, req, loc, opened, sent, engine_calls, rmtree_calls, rmtree_failed >>

\* lines 127-161
PrepareOptions(r) ==
  /\ pc[r] = "options"
  /\ LET want_mp3 == WantMp3(AudioOnlyFlag(req[r].audio_only), req[r].format_id[1])
     IN loc' = [loc EXCEPT ![r].want_mp3 = want_mp3,
                           ![r].output_ext = OutputExt(want_mp3),
                           ![r].format = Some(EngineFormat(want_mp3, req[r].format_id[1]))]
  /\ pc' = [pc EXCEPT ![r] = "engine"]
  /\ UNCHANGED << os_name, req, resp, temp_dir, disk, opened, sent,
                  engine_calls, rmtree_calls, rmtree_failed >>

\* the entry a product of request r is in its scratch directory d
ProductEntry(r, d, kind) ==
  CASE kind = "converted" -> Entry(d, "title", loc[r].output_ext, "file", r)
    [] kind = "raw"       -> Entry(d, "title", req[r].ext, "file", r)
    [] kind = "fragments" -> Entry(d, "fragments", <<>>, "dir", r)

\* lines 163-178: ydl.extract_info(url, download=True), ydl.prepare_filename(info)
\* and the correction of the extension; any exception of these is caught
RunEngine(r, outcomes) ==
  /\ pc[r] = "engine"
  /\ engine_calls' = [engine_calls EXCEPT ![r] = @ + 1]
  /\ \E o \in outcomes :
       LET d        == temp_dir[r][1]
           written  == {ProductEntry(r, d, k) : k \in o.products}
           filename == CorrectExtension(Path(d, "title", req[r].ext), loc[r].want_mp3)
       IN /\ disk' = [disk EXCEPT ![d] = Some(Listdir(d) \cup written)]
          /\ IF o.raises
             THEN /\ loc' = [loc EXCEPT ![r].error = Some(o.message)]
                  /\ resp' = [resp EXCEPT ![r] =
                                JsonError(500, <<"Download failed: ", o.message>>)]
                  /\ pc' = [pc EXCEPT ![r] = ExitTry("return")]
             ELSE /\ loc' = [loc EXCEPT ![r].info = Some([title |-> req[r].title]),
                                        ![r].predicted = Some(filename),
                                        ![r].filename = Some(filename)]
                  /\ pc' = [pc EXCEPT ![r] = "locate"]
                  /\ UNCHANGED resp
  /\ UNCHANGED << os_name, req, temp_dir, opened, sent, rmtree_calls, rmtree_failed >>

\* lines 180-186: os.listdir raises when the directory is gone
LocateFile(r) ==
  /\ pc[r] = "locate"
  /\ LET d == temp_dir[r][1]
     IN IF Exists(loc[r].filename[1])
        THEN /\ pc' = [pc EXCEPT ![r] = "send"]
             /\ UNCHANGED << loc, resp >>
        ELSE IF disk[d] = None
        THEN /\ resp' = [resp EXCEPT ![r] = InternalServerError]
             /\ pc' = [pc EXCEPT ![r] = ExitTry("raise")]
             /\ UNCHANGED loc
        ELSE IF FallbackFiles(d) # {}
        THEN /\ \E f \in FallbackFiles(d) : loc' = [loc EXCEPT ![r].filename = Some(PathOf(f))]
             /\ pc' = [pc EXCEPT ![r] = "send"]
             /\ UNCHANGED resp
        ELSE /\ resp' = [resp EXCEPT ![r] =
                           JsonError(500, <<"Download completed but file not found">>)]
             /\ pc' = [pc EXCEPT ![r] = ExitTry("return")]
             /\ UNCHANGED loc
  /\ UNCHANGED << os_name, req, temp_dir, disk, opened, sent,
                  engine_calls, rmtree_calls, rmtree_failed >>

\* lines 188-194: send_file opens the file and returns a response that streams
\* it later; it raises when the file cannot be opened
SendFile(r) ==
  /\ pc[r] = "send"
  /\ LET path == loc[r].filename[1]
         download_name == DownloadName(req[r].filename, loc[r].info[1], loc[r].output_ext)
     IN \/ /\ Exists(path)
           /\ EntryAt(path).kind = "file"
           /\ opened' = [opened EXCEPT ![r] = Some(EntryAt(path))]
           /\ resp' = [resp EXCEPT ![r] = Response(200, "file", <<>>, download_name, <<>>, None)]
           /\ pc' = [pc EXCEPT ![r] = ExitTry("return")]
        \/ /\ resp' = [resp EXCEPT ![r] = InternalServerError]
           /\ pc' = [pc EXCEPT ![r] = ExitTry("raise")]
           /\ UNCHANGED opened
  /\ UNCHANGED << os_name, req, temp_dir, disk, loc, sent,
                  engine_calls, rmtree_calls, rmtree_failed >>

\* lines 195-202: shutil.rmtree(temp_dir), whose exception is swallowed
Cleanup(r) ==
  /\ pc[r] = "finally"
  /\ rmtree_calls' = [rmtree_calls EXCEPT ![r] = @ + 1]
  /\ LET d == temp_dir[r][1]
     IN \/ /\ RmtreeCanSucceed(d)
           /\ disk' = [disk EXCEPT ![d] = None]
           /\ UNCHANGED rmtree_failed
        \/ \E left \in RmtreeLeftovers(d) :
              /\ disk' = [disk EXCEPT ![d] = IF disk[d] = None THEN None ELSE Some(left)]
              /\ rmtree_failed' = [rmtree_failed EXCEPT ![r] = TRUE]
  /\ pc' = [pc EXCEPT ![r] = "returned"]
  /\ UNCHANGED << os_name, req, resp, temp_dir, loc, opened, sent, engine_calls >>

\* after the view has returned, the server sends the response; the body of a
\* file response is read from the file send_file opened
Deliver(r) ==
  /\ pc[r] = "returned"
  /\ sent' = [sent EXCEPT ![r] = TRUE]
  /\ pc' = [pc EXCEPT ![r] = "done"]
  /\ UNCHANGED << os_name, req, resp, temp_dir, disk, loc, opened,
                  engine_calls, rmtree_calls, rmtree_failed >>

(*************************************************************************)
(* Specifications.                                                       *)
(*************************************************************************)
Download(r, outcomes) ==
  \/ DownloadValidate(r)
  \/ Mkdtemp(r)
  \/ PrepareOptions(r)
  \/ RunEngine(r, outcomes)
  \/ LocateFile(r)
  \/ SendFile(r)
  \/ Cleanup(r)
  \/ Deliver(r)

FetchInfo(r) ==
  \/ FetchInfoValidate(r)
  \/ FetchInfoExtract(r)
  \/ FetchInfoRespond(r)

Next == \E r \in Reqs : Health(r) \/ FetchInfo(r) \/ Download(r, EngineOutcomes)

\* one request of any kind
Spec == Init /\ [][Next]_vars

NextNaming == \E r \in Reqs : Download(r, NamingOutcomes)

\* one download, whose names run over all the texts
SpecNaming == InitNaming /\ [][NextNaming]_vars

NextConcurrent == \E r \in Reqs : Download(r, ConcurrentOutcomes)

\* NReq concurrent downloads
SpecConcurrent == InitConcurrent /\ [][NextConcurrent]_vars

(*************************************************************************)
(* The claims.                                                           *)
(*************************************************************************)
\* the view of request r has returned
Returned(r) == pc[r] \in {"returned", "done"}

\* request r created a scratch directory
Created(r) == temp_dir[r] # None

\* the scratch directory of request r
ScratchDir(r) == temp_dir[r][1]

\* send_file of request r returned a file response
Served(r) == resp[r].kind = "file"

\* request r holds a scratch directory that it has not cleaned up yet
InFlight(r) == pc[r] \in {"options", "engine", "locate", "send", "finally"}

DotMp3 == <<".">> \o Mp3
DotMp4 == <<".">> \o Mp4

\* the attachment name of request r without the extension and its dot
ServedBase(r) ==
  SubSeq(resp[r].download_name, 1, Len(resp[r].download_name) - Len(loc[r].output_ext) - 1)

\* the name the attachment name of request r is derived from
ChosenName(r) ==
  IF Truthy(req[r].filename) THEN req[r].filename[1]
  ELSE IF Truthy(req[r].title) THEN req[r].title[1]
  ELSE <<"v","i","d","e","o">>

\* C1 (as claimed): after any /download call returns, on every exit path, the
\* scratch directory the call created no longer exists on disk.
C1_ScratchDirGone ==
  \A r \in Reqs : (Returned(r) /\ Created(r)) => disk[ScratchDir(r)] = None

\* C1 (amended): on every exit path of a /download call that created a scratch
\* directory, shutil.rmtree was called on it exactly once before the call
\* returned, and the directory no longer exists unless that call raised.
C1_ScratchDirRemovalAttempted ==
  \A r \in Reqs :
    (Returned(r) /\ Created(r)) =>
      /\ rmtree_calls[r] = 1
      /\ ~rmtree_failed[r] => disk[ScratchDir(r)] = None

\* C1 witness: a call that created its directory and then raised has returned,
\* and the directory is gone.
C1_Witness ==
  \E r \in Reqs :
    /\ pc[r] = "done" /\ Created(r) /\ resp[r] = InternalServerError
    /\ ~rmtree_failed[r] /\ disk[ScratchDir(r)] = None

MissingRequired(q) ==
  CASE q.endpoint = "fetch_info" ->
         /\ ~Truthy(IF q.json.t = "object" THEN q.json.url ELSE None)
         /\ ~Truthy(q.url)
    [] q.endpoint = "download" -> ~Truthy(q.url) \/ ~Truthy(q.format_id)
    [] OTHER -> FALSE

\* C3: a request missing a required parameter is rejected with status 400 and
\* a JSON error body, before the engine is invoked and before a scratch
\* directory is created.
C3_MissingParameterRejected ==
  \A r \in Reqs :
    (Returned(r) /\ MissingRequired(req[r])) =>
      /\ resp[r].status = 400
      /\ resp[r].kind = "json"
      /\ resp[r].error # <<>>
      /\ engine_calls[r] = 0
      /\ ~Created(r)

\* C4: every successful /fetch_info response carries exactly 7 formats, in the
\* order 1080p, 720p, 480p, 360p, 240p, 144p, MP3 (audio only), whatever the
\* engine returned, and no two of them have the same id.
C4_FormatsCatalog ==
  \A r \in Reqs :
    (Returned(r) /\ req[r].endpoint = "fetch_info" /\ resp[r].status = 200) =>
      LET formats == resp[r].formats
      IN /\ Len(formats) = 7
         /\ [i \in 1..7 |-> formats[i].label] =
              << <<1080, "p">>, <<720, "p">>, <<480, "p">>, <<360, "p">>,
                 <<240, "p">>, <<144, "p">>, <<"MP3 (audio only)">> >>
         /\ \A i, j \in 1..7 : i # j => formats[i].id # formats[j].id

\* C4 witness: a successful /fetch_info response for the source titled "My Clip".
C4_Witness ==
  \E r \in Reqs :
    /\ pc[r] = "done" /\ req[r].endpoint = "fetch_info"
    /\ resp[r].status = 200 /\ resp[r].title = Some(MyClip)
    /\ Len(resp[r].formats) = 7

\* C5: the base part of the attachment filename contains none of the
\* characters \ / * ? : " < > | and is at most 200 characters long.
C5_BaseNameSafeAndCapped ==
  \A r \in Reqs :
    Served(r) =>
      /\ \A i \in 1..Len(ServedBase(r)) : ServedBase(r)[i] \notin UnsafeChars
      /\ Len(ServedBase(r)) <= 200

\* C6 (as claimed): the attachment filename is the suggested name, or the title
\* when none is suggested, with only the unsafe characters stripped and the
\* length capped, followed by the extension; for format_id=bestaudio, no
\* filename and the title "My Clip" it is exactly "My Clip.mp3".
C6_OnlyUnsafeStripped ==
  \A r \in Reqs :
    Served(r) =>
      /\ ServedBase(r) = Truncate(RemoveChars(ChosenName(r), UnsafeChars), 200)
      /\ ( /\ req[r].format_id = Some(BestAudio)
           /\ req[r].filename = None
           /\ req[r].title = Some(MyClip) )
         => resp[r].download_name = MyClip \o DotMp3

\* a name of ASCII letters, digits and "-" that is no Windows device name
PlainName(n) ==
  /\ n # <<>>
  /\ Len(n) <= 200
  /\ \A i \in 1..Len(n) : n[i] \in (AsciiSafe \ {"_", "."})
  /\ Upper(n) \notin WindowsDeviceFiles

\* C6 (amended): the attachment filename is derived from the suggested name, or
\* from the title when no name is suggested, or from "video": a plain name is
\* kept as it is, every name is reduced to the characters A-Z a-z 0-9 _ . -
\* (whitespace becomes "_"), and the extension follows; for
\* format_id=bestaudio, no filename and the title "My Clip" the attachment
\* filename is exactly "My_Clip.mp3".
C6_AttachmentNameDerived ==
  \A r \in Reqs :
    Served(r) =>
      /\ PlainName(ChosenName(r)) => ServedBase(r) = ChosenName(r)
      /\ \A i \in 1..Len(ServedBase(r)) : ServedBase(r)[i] \in AsciiSafe
      /\ resp[r].download_name = ServedBase(r) \o <<".">> \o loc[r].output_ext
      /\ ( /\ req[r].format_id = Some(BestAudio)
           /\ req[r].filename = None
           /\ req[r].title = Some(MyClip) )
         => resp[r].download_name = <<"M","y","_","C","l","i","p",".","m","p","3">>

\* C6 witness: the request of the example has been served.
C6_Witness ==
  \E r \in Reqs :
    /\ Served(r) /\ pc[r] = "done"
    /\ req[r].format_id = Some(BestAudio)
    /\ req[r].filename = None
    /\ req[r].title = Some(MyClip)

\* C7 (as claimed): a failure of the engine during /download is terminal: the
\* engine is invoked at most once, the response is 500 with the error
\* "Download failed: <engine message>", no file is served, and the scratch
\* directory is removed before the handler returns.
C7_EngineFailureTerminal ==
  \A r \in Reqs :
    /\ engine_calls[r] <= 1
    /\ (Returned(r) /\ loc[r].error # None) =>
         /\ engine_calls[r] = 1
         /\ resp[r] = JsonError(500, <<"Download failed: ", loc[r].error[1]>>)
         /\ opened[r] = None
         /\ disk[ScratchDir(r)] = None

\* C7 (amended): as claimed, except that the removal of the scratch directory
\* is attempted exactly once before the handler returns and the directory is
\* gone unless shutil.rmtree itself raised.
C7_EngineFailureTerminalBestEffort ==
  \A r \in Reqs :
    /\ engine_calls[r] <= 1
    /\ (Returned(r) /\ loc[r].error # None) =>
         /\ engine_calls[r] = 1
         /\ resp[r] = JsonError(500, <<"Download failed: ", loc[r].error[1]>>)
         /\ opened[r] = None
         /\ rmtree_calls[r] = 1
         /\ ~rmtree_failed[r] => disk[ScratchDir(r)] = None

\* C7 witness: the engine failed, the request is over and its directory is gone.
C7_Witness ==
  \E r \in Reqs :
    /\ pc[r] = "done" /\ loc[r].error = Some("unreachable")
    /\ resp[r].status = 500 /\ disk[ScratchDir(r)] = None

\* C8: when a file is served, it is removed from the scratch directory only
\* after the response body has been read from it.
C8_RemovedAfterBodyRead ==
  \A r \in Reqs :
    (Served(r) /\ opened[r][1] \notin Listdir(ScratchDir(r))) => sent[r]

\* C9: after a successful engine run, a file that is served in place of a
\* missing predicted path is a regular file of the request's own scratch
\* directory; the answer is 500 "file not found" exactly when the predicted
\* path does not exist and the directory holds no regular file; and a request
\* ends with a file served or with an error response, never both nor neither.
C9_FallbackAndOutcome ==
  \A r \in Reqs :
    LET notFound == JsonError(500, <<"Download completed but file not found">>)
        regular  == {e \in Listdir(ScratchDir(r)) : e.kind = "file"}
    IN /\ (pc[r] = "send" /\ loc[r].filename # loc[r].predicted) =>
            /\ ~Exists(loc[r].predicted[1])
            /\ \E e \in regular : PathOf(e) = loc[r].filename[1]
       /\ (Served(r) /\ loc[r].filename # loc[r].predicted) =>
            /\ opened[r][1].kind = "file"
            /\ opened[r][1].dir = ScratchDir(r)
            /\ PathOf(opened[r][1]) = loc[r].filename[1]
       /\ (pc[r] \in {"send", "finally"} /\ loc[r].info # None) =>
            (resp[r] = notFound <=> (~Exists(loc[r].predicted[1]) /\ regular = {}))
       /\ (Returned(r) /\ req[r].endpoint = "download") =>
            LET served == opened[r] # None /\ resp[r].status = 200 /\ resp[r].kind = "file"
                failed == opened[r] = None /\ resp[r].status \in {400, 500}
                            /\ resp[r].kind \in {"json", "html"}
            IN served # failed

\* C9 witness: the predicted path was missing and another regular file of the
\* scratch directory has been served.
C9_Witness ==
  \E r \in Reqs :
    /\ pc[r] = "done" /\ Served(r)
    /\ loc[r].filename # loc[r].predicted
    /\ opened[r][1].kind = "file"

\* what holds of every state of concurrent downloads
C10_IsolationState ==
  /\ \A r1, r2 \in Reqs :
       (r1 # r2 /\ InFlight(r1) /\ InFlight(r2)) => temp_dir[r1] # temp_dir[r2]
  /\ \A d \in DirNames : \A e \in Listdir(d) : e.dir = d /\ temp_dir[e.owner] = Some(d)
  /\ \A r \in Reqs :
       /\ loc[r].filename # None => loc[r].filename[1].dir = ScratchDir(r)
       /\ opened[r] # None => opened[r][1].owner = r /\ opened[r][1].dir = ScratchDir(r)

\* what holds of every step of concurrent downloads: an entry or a directory
\* disappears only in the cleanup of the request it belongs to
C10_IsolationStep ==
  \A d \in DirNames :
    /\ \A e \in Listdir(d) \ Listdir(d)' :
         pc[e.owner] = "finally" /\ pc'[e.owner] = "returned"
    /\ (disk[d] # None /\ disk'[d] = None) =>
         \E r \in Reqs : temp_dir[r] = Some(d) /\ pc[r] = "finally" /\ pc'[r] = "returned"

\* C10: in every interleaving of concurrent /download requests, the scratch
\* directories of in-flight requests are distinct, and a request writes into,
\* picks its served file from, and deletes only its own scratch directory.
C10_Isolation == []C10_IsolationState /\ [][C10_IsolationStep]_vars

\* C10 witness: two requests ran together; one has served a file from its
\* directory and removed it while the files of the other are still in place.
C10_Witness ==
  \E r1, r2 \in Reqs :
    /\ r1 # r2
    /\ Served(r1) /\ Returned(r1) /\ disk[ScratchDir(r1)] = None
    /\ pc[r2] = "finally" /\ temp_dir[r2] # temp_dir[r1]
    /\ Listdir(ScratchDir(r2)) # {}

=============================================================================
